---------------------------- MODULE Spec2Model ----------------------------
(***************************************************************************)
(* The swerve drivetrain coordinator (SwerveDrive) and its teleoperation   *)
(* and trajectory-follow commands, in the repository's two source units:   *)
(*   "swervepy"  = src/swervepy/subsystem.py                               *)
(*   "swervelib" = src/swervelib/impl/system.py                            *)
(* Every operation is one action that runs the whole method; the calls it  *)
(* makes on its collaborators (modules, gyro, kinematics, pose estimator,  *)
(* vision callback) are recorded, in order, in the variable log.           *)
(*                                                                         *)
(* Units: speeds, distances and placements are integers in model units;    *)
(* headings are quarter turns 0..3 (CCW+); desaturated speeds are exact    *)
(* rationals <<num, den>>.                                                 *)
(***************************************************************************)
EXTENDS Integers, Sequences, FiniteSets, TLC

VARIABLES
    impl,        \* which source unit the coordinator is built from
    modules,     \* self._modules: the tuple of module indices 0..N-1 (as a sequence)
    built,       \* FALSE before SwerveDrive.__init__ has run
    gyro,        \* heading sensor reading, quarter turns
    dist,        \* dist[i+1]: driven distance read from module i (module_position)
    odometry,    \* self._odometry: the pose estimator's state
    teleop,      \* the _TeleOpCommand instance's attributes
    traj,        \* the trajectory-follow command: its parameters and progress
    scheduled,   \* the commands the scheduler currently runs
    op,          \* the operation whose call has not returned yet, or "idle"
    args,        \* the arguments of that call
    log,         \* the calls that operation made, in order
    raised,      \* the exception that operation ended with, or "none"
    ret,         \* the value that operation returns
    resetTo,     \* history: the pose of the last reset_odometry, until a periodic()
    wrote,       \* history: the last write to each teleop flag, and who made it
    run          \* history: what the trajectory-follow command did in its current run

vars == <<impl, modules, built, gyro, dist, odometry, teleop, traj, scheduled,
          op, args, log, raised, ret, resetTo, wrote, run>>

----------------------------------------------------------------------------
(* Bounds of the model                                                     *)

\* max_velocity, in model units per second (a constructor argument)
MaxLinear == 2
\* max_angular_velocity, in quarter-turn-free model units (a constructor argument)
MaxAngular == 1
\* largest speed magnitude of a state handed directly to desire_module_states
MaxSpeed == 3
\* largest distance a module's drive encoder reports
MaxDist == 1
\* largest coordinate of a pose handed to reset_odometry or returned by vision
MaxCoord == 1

\* wpimath ships SwerveDrive{2,3,4,6}Kinematics / PoseEstimator classes
ModuleCounts == {2, 3, 4, 6}
Impls == {"swervepy", "swervelib"}
Headings == 0..3

----------------------------------------------------------------------------
(* Arithmetic helpers                                                      *)

Abs(x) == IF x < 0 THEN -x ELSE x

RECURSIVE Gcd(_, _)
Gcd(a, b) == IF b = 0 THEN a ELSE Gcd(b, a % b)

\* the rational n/d (d > 0) in lowest terms
Rat(n, d) ==
    LET g == Gcd(Abs(n), d)
    IN  IF n = 0 THEN <<0, 1>> ELSE <<n \div g, d \div g>>

RatAbs(r) == <<Abs(r[1]), r[2]>>
RatLess(r, s) == r[1] * s[2] < s[1] * r[2]
RatMul(r, s) == Rat(r[1] * s[1], r[2] * s[2])
\* r / s for s > 0
RatDiv(r, s) == Rat(r[1] * s[2], r[2] * s[1])

RECURSIVE RatMax(_)
RatMax(rs) ==
    IF Len(rs) = 1 THEN rs[1]
    ELSE LET m == RatMax(Tail(rs))
         IN  IF RatLess(rs[1], m) THEN m ELSE rs[1]

\* floating-point hypot at the model's resolution: the integer square root
Hypot(x, y) ==
    LET s == x * x + y * y
    IN  CHOOSE k \in 0..(Abs(x) + Abs(y)) : k * k <= s /\ s < (k + 1) * (k + 1)

----------------------------------------------------------------------------
(* Geometry: Translation2d, Rotation2d, ChassisSpeeds, SwerveModuleState    *)

\* Rotation2d(x, y): the direction of a vector, as a primitive integer vector;
\* the zero vector has no direction and gives the zero rotation
Rotation2d(x, y) ==
    LET g == Gcd(Abs(x), Abs(y))
    IN  IF g = 0 THEN <<1, 0>> ELSE <<x \div g, y \div g>>

\* a vector turned by q quarter turns counter-clockwise
RotateBy(v, q) ==
    CASE q % 4 = 0 -> v
      [] q % 4 = 1 -> <<-v[2], v[1]>>
      [] q % 4 = 2 -> <<-v[1], -v[2]>>
      [] q % 4 = 3 -> <<v[2], -v[1]>>

ChassisSpeeds(vx, vy, omega) == [vx |-> vx, vy |-> vy, omega |-> omega]

\* ChassisSpeeds.fromFieldRelativeSpeeds: the field-frame translation seen
\* from a robot whose heading is robotAngle
fromFieldRelativeSpeeds(vx, vy, omega, robotAngle) ==
    LET v == RotateBy(<<vx, vy>>, 4 - robotAngle)
    IN  ChassisSpeeds(v[1], v[2], omega)

SwerveModuleState(speed, angle) == [speed |-> speed, angle |-> angle]

\* module.placement of module i (0-based), fixed at construction
Placements ==
    <<(<<1, 1>>), (<<1, -1>>), (<<-1, 1>>), (<<-1, -1>>), (<<2, 0>>), (<<-2, 0>>)>>
placement(i) == Placements[i + 1]

\* the heading a module keeps when the chassis is commanded to a full stop
Held == <<0, 0>>

\* kinematics.toSwerveModuleStates: inverse kinematics, one state per placement
toSwerveModuleStates(ps, speeds) ==
    [k \in 1..Len(ps) |->
        LET wx == speeds.vx - speeds.omega * ps[k][2]
            wy == speeds.vy + speeds.omega * ps[k][1]
        IN  IF speeds.vx = 0 /\ speeds.vy = 0 /\ speeds.omega = 0
            THEN SwerveModuleState(<<0, 1>>, Held)
            ELSE SwerveModuleState(Rat(Hypot(wx, wy), 1), Rotation2d(wx, wy))]

\* kinematics.desaturateWheelSpeeds: uniform scale-down to the ceiling
desaturateWheelSpeeds(states, attainableMaxSpeed) ==
    LET realMaxSpeed == RatMax([k \in 1..Len(states) |-> RatAbs(states[k].speed)])
        limit == <<attainableMaxSpeed, 1>>
    IN  IF RatLess(limit, realMaxSpeed)
        THEN [k \in 1..Len(states) |->
                SwerveModuleState(RatMul(RatDiv(states[k].speed, realMaxSpeed), limit),
                                  states[k].angle)]
        ELSE states


----------------------------------------------------------------------------
(* Pose2d and the pose estimator (wpimath SwerveDrive<N>PoseEstimator)      *)

Pose2d(x, y, rot) == [x |-> x, y |-> y, rot |-> rot]
Origin == Pose2d(0, 0, 0)

\* poses a caller hands to reset_odometry, a path starts at, or vision reports
Poses == {Pose2d(x, 0, r) : x \in 0..MaxCoord, r \in {0, 1}}
\* the estimator's pose stays within this distance of the origin
PoseCap == MaxCoord + MaxDist
InCap(p) == Abs(p.x) <= PoseCap /\ Abs(p.y) <= PoseCap

\* PoseEstimator(kinematics, gyroAngle, modulePositions, initialPose), and
\* resetPosition(gyroAngle, modulePositions, pose): the same assignment
EstimatorAt(gyroAngle, positions, pose) ==
    [pose |-> pose,
     gyroOffset |-> (pose.rot - gyroAngle) % 4,
     previous |-> positions]

RECURSIVE Sum(_)
Sum(s) == IF Len(s) = 0 THEN 0 ELSE s[1] + Sum(Tail(s))

\* update(gyroAngle, modulePositions): the mean wheel advance since the
\* previous sample, laid along the new heading
EstimatorUpdate(est, gyroAngle, positions) ==
    LET angle == (gyroAngle + est.gyroOffset) % 4
        delta == [k \in 1..Len(positions) |-> positions[k] - est.previous[k]]
        step == RotateBy(<<Sum(delta) \div Len(positions), 0>>, angle)
    IN  [pose |-> Pose2d(est.pose.x + step[1], est.pose.y + step[2], angle),
         gyroOffset |-> est.gyroOffset,
         previous |-> positions]

\* addVisionMeasurement(pose, timestamp): the filter moves the estimate to the
\* measurement when it accepts the sample, and leaves it when the timestamp
\* falls outside its history
EstimatorCorrect(est, visionPose, accepted) ==
    IF accepted THEN [est EXCEPT !.pose = visionPose] ELSE est

----------------------------------------------------------------------------
(* The program state the coordinator's methods act on, as one record: each  *)
(* method below maps a state to the state after the call.                   *)

Cur == [gyro |-> gyro, dist |-> dist, odometry |-> odometry, teleop |-> teleop,
        traj |-> traj, scheduled |-> scheduled,
        log |-> log, raised |-> raised, ret |-> ret]

\* Python's None, and Optional values
NoValue == "None"
None == [some |-> FALSE]
Some(v) == [some |-> TRUE, value |-> v]

Called(s, entry) == [s EXCEPT !.log = Append(@, entry)]
Fresh(s) == [s EXCEPT !.log = <<>>, !.raised = "none", !.ret = NoValue]

\* len(self._modules)
N == Len(modules)

\* SwerveDrive.module_positions
module_positions(s) == s.dist

\* SwerveDrive.pose
pose(s) == s.odometry.pose

\* SwerveDrive.heading
heading(s) == s.gyro

\* SwerveDrive.reset_modules: module.reset() for every module, in order
RECURSIVE ResetFrom(_, _)
ResetFrom(s, k) ==
    IF k > N THEN s
    ELSE ResetFrom(Called([s EXCEPT !.dist[k] = 0],
                          [call |-> "module.reset", module |-> modules[k]]), k + 1)
reset_modules(s) == ResetFrom(s, 1)

\* a zero_heading that also re-bases the pose estimate on the new zero
zero_heading_rebasing(s) ==
    Called([s EXCEPT !.gyro = 0,
                     !.odometry = EstimatorAt(0, s.dist, Pose2d(s.odometry.pose.x,
                                                                s.odometry.pose.y, 0))],
           [call |-> "gyro.zero_heading"])

\* SwerveDrive.zero_heading
zero_heading(s) == Called([s EXCEPT !.gyro = 0], [call |-> "gyro.zero_heading"])

\* a reset_odometry that ignores its argument and resets to the origin
reset_odometry_to_origin(s, p) ==
    Called([s EXCEPT !.odometry = EstimatorAt(s.gyro, s.dist, Origin)],
           [call |-> "odometry.resetPosition", heading |-> s.gyro,
            positions |-> s.dist, pose |-> Origin])

\* SwerveDrive.reset_odometry
reset_odometry(s, p) ==
    Called([s EXCEPT !.odometry = EstimatorAt(heading(s), module_positions(s), p)],
           [call |-> "odometry.resetPosition", heading |-> heading(s),
            positions |-> module_positions(s), pose |-> p])

----------------------------------------------------------------------------
(* SwerveDrive: construction, periodic, drive, desire_module_states         *)

\* self.max_velocity, self.max_angular_velocity
max_velocity == MaxLinear
max_angular_velocity == MaxAngular

\* [module.placement for module in self._modules]
ModulePlacements == [k \in 1..N |-> placement(modules[k])]

\* the number of iterations of desire_module_states' loop:
\* range(len(self._modules)) in swervepy, range(4) in swervelib
LoopCount == IF impl = "swervepy" THEN N ELSE 4

\* a desire_module_states that forwards its argument as given
ForwardedStates_undesaturated(states) == states

\* the list desire_module_states indexes in its loop
ForwardedStates(states) == desaturateWheelSpeeds(states, max_velocity)

\* the loop of desire_module_states from index i (0-based) on; self._modules[i]
\* and swerve_module_states[i] raise IndexError past the end of their tuple
RECURSIVE FanOut(_, _, _, _, _)
FanOut(s, i, sms, open_loop, rotate_in_place) ==
    IF i >= LoopCount THEN s
    ELSE IF i >= N \/ i >= Len(sms) THEN [s EXCEPT !.raised = "IndexError"]
    ELSE FanOut(Called(s, [call |-> "module.desire_state", module |-> modules[i + 1],
                           state |-> sms[i + 1], open_loop |-> open_loop,
                           rotate_in_place |-> rotate_in_place]),
                i + 1, sms, open_loop, rotate_in_place)

\* self._kinematics is SwerveDrive{len(modules)}Kinematics: its methods take a
\* tuple of exactly that many module states, and the call is rejected with a
\* TypeError for a tuple of any other length
KinematicsAccepts(states) == Len(states) = N

\* a desire_module_states that hands the given states to the modules without
\* passing them through the kinematics
desire_module_states_without_kinematics(s, states, open_loop, rotate_in_place) ==
    FanOut(Called(s, [call |-> "desire_module_states", states |-> states,
                      open_loop |-> open_loop, rotate_in_place |-> rotate_in_place]),
           0, states, open_loop, rotate_in_place)

\* SwerveDrive.desire_module_states
desire_module_states(s, states, open_loop, rotate_in_place) ==
    LET s1 == Called(s, [call |-> "desire_module_states", states |-> states,
                         open_loop |-> open_loop, rotate_in_place |-> rotate_in_place])
    IN  IF ~KinematicsAccepts(states) THEN [s1 EXCEPT !.raised = "TypeError"]
        ELSE FanOut(s1, 0, ForwardedStates(states), open_loop, rotate_in_place)

\* a field-relative conversion that leaves the rotation speed out
DriveSpeeds_rotation_dropped(s, translation, rotation, field_relative) ==
    IF field_relative
    THEN fromFieldRelativeSpeeds(translation[1], translation[2], 0, heading(s))
    ELSE ChassisSpeeds(translation[1], translation[2], rotation)

\* the chassis speed drive() hands to the kinematics
DriveSpeeds(s, translation, rotation, field_relative) ==
    IF field_relative
    THEN fromFieldRelativeSpeeds(translation[1], translation[2], rotation, heading(s))
    ELSE ChassisSpeeds(translation[1], translation[2], rotation)

\* SwerveDrive.drive(translation, rotation, field_relative, open_loop)
drive(s, translation, rotation, field_relative, open_loop) ==
    desire_module_states(
        Called(s, [call |-> "drive", translation |-> translation, rotation |-> rotation,
                   field_relative |-> field_relative, open_loop |-> open_loop]),
        toSwerveModuleStates(ModulePlacements,
                             DriveSpeeds(s, translation, rotation, field_relative)),
        open_loop, FALSE)

\* an overload that calls the primary drive field-relative
drive_chassis_speeds_field_relative(s, chassis_speeds, drive_open_loop) ==
    drive(Called(s, [call |-> "drive(ChassisSpeeds)", chassis_speeds |-> chassis_speeds,
                     open_loop |-> drive_open_loop]),
          <<chassis_speeds.vx, chassis_speeds.vy>>, chassis_speeds.omega, TRUE,
          drive_open_loop)

\* SwerveDrive.drive(chassis_speeds, drive_open_loop): the registered overload
drive_chassis_speeds(s, chassis_speeds, drive_open_loop) ==
    drive(Called(s, [call |-> "drive(ChassisSpeeds)", chassis_speeds |-> chassis_speeds,
                     open_loop |-> drive_open_loop]),
          <<chassis_speeds.vx, chassis_speeds.vy>>, chassis_speeds.omega, FALSE,
          drive_open_loop)

\* a periodic that asks the vision callback before it updates the estimator
periodic_callback_first(s, vision, accepted) ==
    LET s1 == Called(s, [call |-> "vision_pose_callback", pose |-> s.odometry.pose,
                         result |-> vision])
        s2 == Called([s1 EXCEPT !.odometry = EstimatorUpdate(@, s.gyro, s.dist)],
                     [call |-> "odometry.update", heading |-> s.gyro,
                      positions |-> s.dist])
    IN  IF vision.some
        THEN Called([s2 EXCEPT !.odometry = EstimatorCorrect(@, vision.value, accepted)],
                    [call |-> "odometry.addVisionMeasurement", pose |-> vision.value])
        ELSE s2

\* SwerveDrive.periodic; vision is what the vision-pose callback returns, and
\* accepted whether the estimator's filter takes the sample
periodic(s, vision, accepted) ==
    LET s1 == Called([s EXCEPT !.odometry =
                          EstimatorUpdate(@, heading(s), module_positions(s))],
                     [call |-> "odometry.update", heading |-> heading(s),
                      positions |-> module_positions(s)])
        s2 == Called(s1, [call |-> "vision_pose_callback", pose |-> pose(s1),
                          result |-> vision])
    IN  IF vision.some
        THEN Called([s2 EXCEPT !.odometry = EstimatorCorrect(@, vision.value, accepted)],
                    [call |-> "odometry.addVisionMeasurement", pose |-> vision.value])
        ELSE s2

\* SwerveDrive.__init__: the steps of construction, in the order of the source
InitSleep(s) == Called(s, [call |-> "time.sleep", seconds |-> 1])
InitKinematics(s) == Called(s, [call |-> "Kinematics", placements |-> ModulePlacements])
InitOdometry(s) ==
    Called([s EXCEPT !.odometry = EstimatorAt(heading(s), module_positions(s), Origin)],
           [call |-> "PoseEstimator", heading |-> heading(s),
            positions |-> module_positions(s), pose |-> Origin])
\* a constructor that builds the estimator before it resets the hardware
SwerveDriveInit_estimator_first(s) ==
    zero_heading(reset_modules(InitSleep(InitOdometry(InitKinematics(s)))))

SwerveDriveInit(s) ==
    InitOdometry(InitKinematics(zero_heading(reset_modules(InitSleep(s)))))

\* kinematics.toChassisSpeeds: forward kinematics of measured module states
\* whose angles lie on the axes
toChassisSpeeds(ps, states) ==
    LET wx == [k \in 1..Len(ps) |-> states[k].speed[1] * states[k].angle[1]]
        wy == [k \in 1..Len(ps) |-> states[k].speed[1] * states[k].angle[2]]
        tq == [k \in 1..Len(ps) |-> ps[k][1] * wy[k] - ps[k][2] * wx[k]]
        r2 == [k \in 1..Len(ps) |-> ps[k][1] * ps[k][1] + ps[k][2] * ps[k][2]]
    IN  ChassisSpeeds(Sum(wx) \div Len(ps), Sum(wy) \div Len(ps), Sum(tq) \div Sum(r2))

\* SwerveDrive.robot_relative_speeds, from module.module_state of every module
robot_relative_speeds(s, module_states) == toChassisSpeeds(ModulePlacements, module_states)

----------------------------------------------------------------------------
(* _TeleOpCommand                                                           *)

\* the coordinator, as a resource a command requires
Swerve == "swerve"

\* a _TeleOpCommand that requires nothing
TeleOpCommand_without_requirements(field_relative, open_loop) ==
    [exists |-> TRUE, requirements |-> {}, field_relative |-> field_relative,
     open_loop |-> open_loop, drive_open_loop |-> None]

\* _TeleOpCommand.__init__: addRequirements(swerve), and the attributes it sets
TeleOpCommand(field_relative, open_loop) ==
    [exists |-> TRUE, requirements |-> {Swerve}, field_relative |-> field_relative,
     open_loop |-> open_loop, drive_open_loop |-> None]

\* _TeleOpCommand.execute; the three input sources return translation, strafe, rotation
execute(s, translation, strafe, rotation) ==
    drive(Called(s, [call |-> "execute"]),
          <<translation * max_velocity, strafe * max_velocity>>,
          rotation * max_angular_velocity,
          s.teleop.field_relative, s.teleop.open_loop)

\* the "Field Relative" property's setter of initSendable
set_field_relative(s, val) == [s EXCEPT !.teleop.field_relative = val]

\* the "Open Loop" property's setter of initSendable: setattr(self, "open_loop", val)
\* in swervelib, setattr(self, "drive_open_loop", val) in swervepy
set_open_loop(s, val) ==
    IF impl = "swervepy"
    THEN [s EXCEPT !.teleop.drive_open_loop = Some(val)]
    ELSE [s EXCEPT !.teleop.open_loop = val]

\* a toggle_field_relative that flips the other flag
toggle_field_relative_wrong_flag(s) == [s EXCEPT !.teleop.open_loop = ~@]

\* _TeleOpCommand.toggle_field_relative, toggle_open_loop
toggle_field_relative(s) == [s EXCEPT !.teleop.field_relative = ~@]
toggle_open_loop(s) == [s EXCEPT !.teleop.open_loop = ~@]

----------------------------------------------------------------------------
(* The trajectory-follow command and the command library it is built from   *)

\* pathplannerlib FollowPathCommand(path, ..., output, ..., *requirements)
FollowPathCommand(path, open_loop, requirements) ==
    [parts |-> <<[kind |-> "FollowPathCommand", path |-> path, open_loop |-> open_loop]>>,
     requirements |-> requirements, index |-> 0]

\* commands2.InstantCommand(lambda: self.reset_odometry(pose)): no requirements
InstantCommand(to) ==
    [parts |-> <<[kind |-> "InstantCommand", pose |-> to]>>,
     requirements |-> {}, index |-> 0]

\* commands2 Command.andThen(next): a SequentialCommandGroup of the two, which
\* requires what either requires
andThen(command, next) ==
    [parts |-> command.parts \o next.parts,
     requirements |-> command.requirements \cup next.requirements, index |-> 0]

\* commands2 Command.beforeStarting(before) is before.andThen(self)
beforeStarting(command, before) == andThen(before, command)

\* a follow_trajectory_command that resets the odometry after the path
follow_trajectory_command_reset_after(path, first_path, drive_open_loop) ==
    LET command == FollowPathCommand(path, drive_open_loop, {Swerve})
    IN  IF first_path THEN andThen(command, InstantCommand(path.start)) ELSE command

\* SwerveDrive.follow_trajectory_command(path, parameters, first_path, drive_open_loop);
\* path.start is path.getPreviewStartingHolonomicPose()
follow_trajectory_command(path, first_path, drive_open_loop) ==
    LET command == FollowPathCommand(path, drive_open_loop, {Swerve})
    IN  IF first_path THEN beforeStarting(command, InstantCommand(path.start)) ELSE command

\* the commands the scheduler knows
Commands == {"teleop", "follow"}

Requirements(s, c) ==
    IF c = "teleop" THEN s.teleop.requirements ELSE s.traj.command.requirements

\* initialize() of part k of the trajectory-follow command: the InstantCommand
\* runs its function, the FollowPathCommand plans its path and starts its timer
InitializePart(s, k) ==
    LET part == s.traj.command.parts[k]
        s1 == [s EXCEPT !.traj.command.index = k]
    IN  IF part.kind = "InstantCommand" THEN reset_odometry(s1, part.pose) ELSE s1

\* end(interrupted) of part k: a FollowPathCommand that ends uninterrupted on a
\* path that ends at rest outputs zero speeds
EndPart(s, k, interrupted) ==
    LET part == s.traj.command.parts[k]
    IN  IF part.kind = "FollowPathCommand" /\ ~interrupted /\ part.path.endsAtRest
        THEN drive_chassis_speeds(s, ChassisSpeeds(0, 0, 0), part.open_loop)
        ELSE s

\* Command.initialize(); SequentialCommandGroup.initialize starts its first part
initialize(s, c) ==
    LET s1 == Called(s, [call |-> "command.initialize", command |-> c])
    IN  IF c = "teleop" THEN s1 ELSE InitializePart(s1, 1)

\* Command.end(interrupted); SequentialCommandGroup.end ends the part in
\* progress when it is interrupted
end(s, c, interrupted) ==
    LET s1 == Called(s, [call |-> "command.end", command |-> c,
                         interrupted |-> interrupted])
        k == s.traj.command.index
    IN  IF c = "teleop" THEN s1
        ELSE [(IF interrupted /\ k \in 1..Len(s.traj.command.parts)
               THEN EndPart(s1, k, TRUE) ELSE s1)
              EXCEPT !.traj.command.index = 0]

\* SequentialCommandGroup.execute: the part in progress executes; when it is
\* finished it is ended and the next part is initialized.  speeds is what the
\* follower's controller outputs, finished whether the path's time is up.
execute_follow(s, speeds, finished) ==
    LET k == s.traj.command.index
        part == s.traj.command.parts[k]
        s1 == IF part.kind = "FollowPathCommand"
              THEN drive_chassis_speeds(s, speeds, part.open_loop)
              ELSE s
        done == part.kind = "InstantCommand" \/ finished
        s2 == EndPart(s1, k, FALSE)
    IN  IF ~done THEN s1
        ELSE IF k < Len(s.traj.command.parts) THEN InitializePart(s2, k + 1)
        ELSE [s2 EXCEPT !.traj.command.index = k + 1]

\* SequentialCommandGroup.isFinished; a _TeleOpCommand never finishes
isFinished(s, c) ==
    c = "follow" /\ s.traj.command.index = Len(s.traj.command.parts) + 1

Remove(seq, c) == SelectSeq(seq, LAMBDA d : d # c)
Elements(seq) == {seq[k] : k \in 1..Len(seq)}

\* CommandScheduler.cancel(command)
cancel(s, c) ==
    IF c \notin Elements(s.scheduled) THEN s
    ELSE [end(s, c, TRUE) EXCEPT !.scheduled = Remove(@, c)]

RECURSIVE CancelAll(_, _)
CancelAll(s, cs) == IF cs = <<>> THEN s ELSE CancelAll(cancel(s, Head(cs)), Tail(cs))

\* CommandScheduler.schedule(command): the scheduled commands that share a
\* requirement with it are cancelled, then it is initialized
schedule(s, c) ==
    IF c \in Elements(s.scheduled) THEN s
    ELSE LET conflicting ==
                 SelectSeq(s.scheduled,
                           LAMBDA d : Requirements(s, d) \cap Requirements(s, c) # {})
             s1 == initialize(CancelAll(s, conflicting), c)
         IN  [s1 EXCEPT !.scheduled = Append(@, c)]

\* the scheduler's loop over the commands cs: each executes, and one that is
\* finished is ended and removed; an exception ends the loop
RECURSIVE RunCommands(_, _, _)
RunCommands(s, cs, inputs) ==
    IF cs = <<>> \/ s.raised # "none" THEN s
    ELSE LET c == Head(cs)
             s1 == Called(s, [call |-> "command.execute", command |-> c])
             s2 == IF c = "teleop"
                   THEN execute(s1, inputs.translation, inputs.strafe, inputs.rotation)
                   ELSE execute_follow(s1, inputs.speeds, inputs.finished)
             s3 == IF s2.raised = "none" /\ isFinished(s2, c)
                   THEN [end(s2, c, FALSE) EXCEPT !.scheduled = Remove(@, c)]
                   ELSE s2
         IN  RunCommands(s3, Tail(cs), inputs)

\* CommandScheduler.run(): the coordinator's periodic(), with the default
\* vision-pose callback, then the scheduled commands
scheduler_run(s, inputs) ==
    RunCommands(periodic(s, None, TRUE), s.scheduled, inputs)

----------------------------------------------------------------------------
(* Inputs                                                                   *)

\* what a joystick axis returns
Axis == {-1, 0, 1}
\* translations and rotations handed to drive
Translations == {<<x * max_velocity, y * max_velocity>> : x \in Axis, y \in Axis}
Rotations == {r * max_angular_velocity : r \in Axis}
\* speeds of the states handed directly to desire_module_states
Speeds == (-MaxSpeed)..MaxSpeed
\* state lists of length n: speed a on the even module indices, b on the odd
\* ones, the wheels of the two groups at right angles
StateLists(n) ==
    {[k \in 1..n |-> IF k % 2 = 1 THEN SwerveModuleState(<<a, 1>>, <<1, 0>>)
                                  ELSE SwerveModuleState(<<b, 1>>, <<0, 1>>)] :
        a \in Speeds, b \in Speeds}
\* what the modules' sensors report as their instantaneous state
MeasuredStates(n) ==
    {[k \in 1..n |-> SwerveModuleState(<<v, 1>>, a)] :
        v \in 0..1, a \in {<<1, 0>>, <<0, 1>>}}
\* what the vision-pose callback returns
VisionResults == {None} \cup {Some(p) : p \in Poses}

\* the paths a trajectory-follow command is built for: where they start, and
\* whether they end at rest
Paths == {[start |-> p, endsAtRest |-> b] : p \in {Origin, Pose2d(MaxCoord, 0, 1)},
                                            b \in BOOLEAN}

----------------------------------------------------------------------------
(* Actions: one per operation.  The two history variables are written by    *)
(* the trackers further down, which each specification joins to its steps.  *)

\* the variables a method's result state assigns
Assign(s, name, arguments) ==
    /\ gyro' = s.gyro
    /\ dist' = s.dist
    /\ odometry' = s.odometry
    /\ teleop' = s.teleop
    /\ traj' = s.traj
    /\ scheduled' = s.scheduled
    /\ log' = s.log
    /\ raised' = s.raised
    /\ ret' = s.ret
    /\ op' = name
    /\ args' = arguments
    /\ UNCHANGED <<impl, modules>>

\* the result state is computed once, then assigned
Commit(result, name, arguments) == \E s \in {result} : Assign(s, name, arguments)

NoArgs == [none |-> TRUE]

\* nobody has written a teleop flag since the command was built
Unwritten == [by |-> "nobody", value |-> FALSE]
Written(by, value) == [by |-> by, value |-> value]

\* the trajectory-follow command has not been scheduled
NoRun == [started |-> FALSE, resets |-> 0, drove |-> FALSE, late |-> FALSE, poses |-> {}]

\* before construction: the robot has been moved by hand, nothing is built
Init ==
    /\ impl \in Impls
    /\ \E n \in ModuleCounts : modules = [k \in 1..n |-> k - 1]
    /\ built = FALSE
    /\ gyro \in Headings
    /\ \E d \in 0..MaxDist : dist = [k \in 1..Len(modules) |-> d]
    /\ odometry = [pose |-> Origin, gyroOffset |-> 0, previous |-> <<>>]
    /\ teleop = [exists |-> FALSE]
    /\ traj = [exists |-> FALSE]
    /\ scheduled = <<>>
    /\ op = "idle"
    /\ args = NoArgs
    /\ log = <<>>
    /\ raised = "none"
    /\ ret = NoValue
    /\ resetTo = None
    /\ wrote = [field_relative |-> Unwritten, open_loop |-> Unwritten]
    /\ run = NoRun

\* the same boot, for a drive base of two or of four modules
InitTwoOrFour == Init /\ Len(modules) \in {2, 4}

\* the same boot, for a drive base of four modules
InitFour == Init /\ Len(modules) = 4

\* the coordinator is built and no call is in progress: the scheduler is
\* single-threaded, so operations never overlap
Ready == built /\ op = "idle"

\* the call in progress returns to its caller
Return ==
    /\ op # "idle"
    /\ op' = "idle"
    /\ args' = NoArgs
    /\ log' = <<>>
    /\ raised' = "none"
    /\ ret' = NoValue
    /\ UNCHANGED <<impl, modules, built, gyro, dist, odometry, teleop, traj, scheduled>>

\* SwerveDrive(modules, gyro, max_velocity, max_angular_velocity, callback)
Construct ==
    /\ ~built
    /\ op = "idle"
    /\ built' = TRUE
    /\ Commit(SwerveDriveInit(Fresh(Cur)), "__init__", NoArgs)

\* the robot turns a quarter turn
Turn ==
    /\ Ready
    /\ gyro' = (gyro + 1) % 4
    /\ UNCHANGED <<impl, modules, built, dist, odometry, teleop, traj, scheduled,
                   op, args, log, raised, ret>>

\* the robot rolls: every wheel advances one unit
Roll ==
    /\ Ready
    /\ \A k \in 1..N : dist[k] < MaxDist
    /\ dist' = [k \in 1..N |-> dist[k] + 1]
    /\ UNCHANGED <<impl, modules, built, gyro, odometry, teleop, traj, scheduled,
                   op, args, log, raised, ret>>

\* periodic(), the vision-pose callback returning one of visions
Periodic(visions) ==
    /\ Ready
    /\ \E vision \in visions, accepted \in BOOLEAN :
          /\ vision.some \/ accepted
          /\ LET s == periodic(Fresh(Cur), vision, accepted)
             IN  /\ InCap(pose(s))
                 /\ Commit(s, "periodic", NoArgs)
    /\ UNCHANGED built

Drive(translations, rotations) ==
    /\ Ready
    /\ \E translation \in translations, rotation \in rotations,
          field_relative \in BOOLEAN, open_loop \in BOOLEAN :
          Commit(drive(Fresh(Cur), translation, rotation, field_relative, open_loop),
                 "drive",
                 [translation |-> translation, rotation |-> rotation,
                  field_relative |-> field_relative, open_loop |-> open_loop])
    /\ UNCHANGED built

DriveChassisSpeeds(translations, rotations) ==
    /\ Ready
    /\ impl = "swervepy"
    /\ \E translation \in translations, rotation \in rotations, open_loop \in BOOLEAN :
          LET chassis_speeds == ChassisSpeeds(translation[1], translation[2], rotation)
          IN  Commit(drive_chassis_speeds(Fresh(Cur), chassis_speeds, open_loop),
                     "drive(ChassisSpeeds)",
                     [chassis_speeds |-> chassis_speeds, open_loop |-> open_loop])
    /\ UNCHANGED built

DesireModuleStates(lists) ==
    /\ Ready
    /\ \E states \in lists, open_loop \in BOOLEAN, rotate_in_place \in BOOLEAN :
          Commit(desire_module_states(Fresh(Cur), states, open_loop, rotate_in_place),
                 "desire_module_states",
                 [states |-> states, open_loop |-> open_loop,
                  rotate_in_place |-> rotate_in_place])
    /\ UNCHANGED built

ResetModules ==
    /\ Ready
    /\ Commit(reset_modules(Fresh(Cur)), "reset_modules", NoArgs)
    /\ UNCHANGED built

ZeroHeading ==
    /\ Ready
    /\ Commit(zero_heading(Fresh(Cur)), "zero_heading", NoArgs)
    /\ UNCHANGED built

ResetOdometry(poses) ==
    /\ Ready
    /\ \E p \in poses :
          Commit(reset_odometry(Fresh(Cur), p), "reset_odometry", [pose |-> p])
    /\ UNCHANGED built

\* the read accessors: the value read is left in ret
ReadModulePositions ==
    /\ Ready
    /\ Commit([Fresh(Cur) EXCEPT !.ret = module_positions(Cur)], "module_positions",
              NoArgs)
    /\ UNCHANGED built

ReadPose ==
    /\ Ready
    /\ Commit([Fresh(Cur) EXCEPT !.ret = pose(Cur)], "pose", NoArgs)
    /\ UNCHANGED built

ReadHeading ==
    /\ Ready
    /\ Commit([Fresh(Cur) EXCEPT !.ret = heading(Cur)], "heading", NoArgs)
    /\ UNCHANGED built

ReadRobotRelativeSpeeds ==
    /\ Ready
    /\ impl = "swervepy"
    /\ \E ms \in MeasuredStates(N) :
          Commit([Fresh(Cur) EXCEPT !.ret = robot_relative_speeds(Cur, ms)],
                 "robot_relative_speeds", NoArgs)
    /\ UNCHANGED built

\* SwerveDrive.teleop_command(translation, strafe, rotation, field_relative, open_loop)
TeleopCommand ==
    /\ Ready
    /\ ~teleop.exists
    /\ \E field_relative \in BOOLEAN, open_loop \in BOOLEAN :
          Commit([Fresh(Cur) EXCEPT !.teleop = TeleOpCommand(field_relative, open_loop)],
                 "teleop_command",
                 [field_relative |-> field_relative, open_loop |-> open_loop])
    /\ UNCHANGED built

\* one execute() of the teleop command, its input sources returning values of axis
Execute(axis) ==
    /\ Ready
    /\ teleop.exists
    /\ \E translation \in axis, strafe \in axis, rotation \in axis :
          Commit(execute(Fresh(Cur), translation, strafe, rotation), "execute",
                 [translation |-> translation, strafe |-> strafe, rotation |-> rotation])
    /\ UNCHANGED built

\* the dashboard writes the "Field Relative" property
SetFieldRelative ==
    /\ Ready
    /\ teleop.exists
    /\ \E val \in BOOLEAN :
          Commit(set_field_relative(Fresh(Cur), val), "set_field_relative", [val |-> val])
    /\ UNCHANGED built

\* the dashboard writes the "Open Loop" property
SetOpenLoop ==
    /\ Ready
    /\ teleop.exists
    /\ \E val \in BOOLEAN :
          Commit(set_open_loop(Fresh(Cur), val), "set_open_loop", [val |-> val])
    /\ UNCHANGED built

ToggleFieldRelative ==
    /\ Ready
    /\ teleop.exists
    /\ Commit(toggle_field_relative(Fresh(Cur)), "toggle_field_relative", NoArgs)
    /\ UNCHANGED built

ToggleOpenLoop ==
    /\ Ready
    /\ teleop.exists
    /\ Commit(toggle_open_loop(Fresh(Cur)), "toggle_open_loop", NoArgs)
    /\ UNCHANGED built

\* SwerveDrive.follow_trajectory_command(path, parameters, first_path, drive_open_loop)
FollowTrajectoryCommand ==
    /\ Ready
    /\ impl = "swervepy"
    /\ ~traj.exists
    /\ \E path \in Paths, first_path \in BOOLEAN, open_loop \in BOOLEAN :
          Commit([Fresh(Cur) EXCEPT !.traj =
                      [exists |-> TRUE, path |-> path, first_path |-> first_path,
                       command |-> follow_trajectory_command(path, first_path, open_loop)]],
                 "follow_trajectory_command",
                 [path |-> path, first_path |-> first_path, open_loop |-> open_loop])
    /\ UNCHANGED built

\* the commands that have been built
Built == {c \in Commands : IF c = "teleop" THEN teleop.exists ELSE traj.exists}

\* CommandScheduler.schedule(command)
Schedule ==
    /\ Ready
    /\ \E c \in Built :
          /\ c \notin Elements(scheduled)
          /\ Commit(schedule(Fresh(Cur), c), "schedule", [command |-> c])
    /\ UNCHANGED built

\* CommandScheduler.cancel(command)
Cancel ==
    /\ Ready
    /\ \E c \in Elements(scheduled) :
          Commit(cancel(Fresh(Cur), c), "cancel", [command |-> c])
    /\ UNCHANGED built

\* one cycle of the scheduler: CommandScheduler.run().  The input sources of
\* the teleop command return values of axis, the follower's controller outputs
\* one of the given chassis speeds
SchedulerRun(axis, translations, rotations) ==
    /\ Ready
    /\ \E translation \in (IF "teleop" \in Elements(scheduled) THEN axis ELSE {0}),
          rotation \in (IF "teleop" \in Elements(scheduled) THEN axis ELSE {0}),
          v \in (IF "follow" \in Elements(scheduled) THEN translations ELSE {<<0, 0>>}),
          omega \in (IF "follow" \in Elements(scheduled) THEN rotations ELSE {0}),
          finished \in (IF "follow" \in Elements(scheduled) THEN BOOLEAN ELSE {FALSE}) :
          LET inputs == [translation |-> translation, strafe |-> 0, rotation |-> rotation,
                     speeds |-> ChassisSpeeds(v[1], v[2], omega), finished |-> finished]
          IN  Commit(scheduler_run(Fresh(Cur), inputs), "scheduler.run", inputs)
    /\ UNCHANGED built

----------------------------------------------------------------------------
(* History variables, written from the step just taken                      *)

\* no history is kept
Untracked == UNCHANGED <<resetTo, wrote, run>>

\* resetTo: the pose handed to the last reset_odometry, until a periodic()
TrackResets ==
    /\ resetTo' = CASE op' = "reset_odometry" -> Some(args'.pose)
                    [] op' = "periodic" -> None
                    [] OTHER -> resetTo
    /\ UNCHANGED <<wrote, run>>

\* wrote: the value last written to each teleop flag, by a dashboard setter
\* or by a toggle (which writes the negation of the flag's value before it)
TrackWrites ==
    /\ wrote' =
          CASE op' = "set_field_relative" ->
                  [wrote EXCEPT !.field_relative = Written("setter", args'.val)]
            [] op' = "set_open_loop" ->
                  [wrote EXCEPT !.open_loop = Written("setter", args'.val)]
            [] op' = "toggle_field_relative" ->
                  [wrote EXCEPT !.field_relative = Written("toggle", ~teleop.field_relative)]
            [] op' = "toggle_open_loop" ->
                  [wrote EXCEPT !.open_loop = Written("toggle", ~teleop.open_loop)]
            [] OTHER -> wrote
    /\ UNCHANGED <<resetTo, run>>

\* the entries of the log l made by command c: those after one of its
\* initialize, execute or end markers and before the next marker
Markers == {"command.initialize", "command.execute", "command.end"}
\* the command whose marker is the last one at or before entry k of the log l
RECURSIVE Owner(_, _)
Owner(l, k) ==
    IF k = 0 THEN "nobody"
    ELSE IF l[k].call \in Markers THEN l[k].command
    ELSE Owner(l, k - 1)

OwnedBy(l, c) == {k \in 1..Len(l) : l[k].call \notin Markers /\ Owner(l, k) = c}

\* run: since the trajectory-follow command was last initialized, how many
\* times it reset the odometry and to which poses, whether it has driven, and
\* whether a reset came after a drive
TrackRuns ==
    /\ run' =
          IF op' \notin {"schedule", "cancel", "scheduler.run"} THEN run
          ELSE LET mine == OwnedBy(log', "follow")
                   resets == {k \in mine : log'[k].call = "odometry.resetPosition"}
                   drives == {k \in mine : log'[k].call = "drive"}
                   starts == \E k \in 1..Len(log') :
                                log'[k] = [call |-> "command.initialize",
                                           command |-> "follow"]
                   base == IF starts THEN [NoRun EXCEPT !.started = TRUE] ELSE run
               IN  [started |-> base.started,
                    resets |-> base.resets + Cardinality(resets),
                    drove |-> base.drove \/ drives # {},
                    late |-> \/ base.late
                             \/ \E r \in resets :
                                   base.drove \/ \E d \in drives : d < r,
                    poses |-> base.poses \cup {log'[k].pose : k \in resets}]
    /\ UNCHANGED <<resetTo, wrote>>

----------------------------------------------------------------------------
(* The fan-out of module commands: construction, the two drive entry points *)
(* and desire_module_states, on a robot that turns.                         *)

NextFanOut ==
    \/ Construct /\ Untracked
    \/ Return /\ Untracked
    \/ Turn /\ Untracked
    \/ Drive(Translations, Rotations) /\ Untracked
    \/ DriveChassisSpeeds(Translations, Rotations) /\ Untracked
    \/ DesireModuleStates(StateLists(N)) /\ Untracked

SpecFanOut == Init /\ [][NextFanOut]_vars

----------------------------------------------------------------------------
(* Odometry: construction, periodic, the resets and the read accessors, on  *)
(* a robot that turns and rolls.                                            *)

NextOdometry ==
    \/ Construct /\ TrackResets
    \/ Return /\ TrackResets
    \/ Turn /\ TrackResets
    \/ Roll /\ TrackResets
    \/ Periodic(VisionResults) /\ TrackResets
    \/ ResetOdometry(Poses) /\ TrackResets
    \/ ResetModules /\ TrackResets
    \/ ZeroHeading /\ TrackResets
    \/ ReadModulePositions /\ TrackResets
    \/ ReadPose /\ TrackResets
    \/ ReadHeading /\ TrackResets
    \/ ReadRobotRelativeSpeeds /\ TrackResets

SpecOdometry == InitTwoOrFour /\ [][NextOdometry]_vars

----------------------------------------------------------------------------
(* The teleoperation command: its construction, execute, the two dashboard  *)
(* setters and the two toggles, on a robot that turns.                      *)

NextTeleop ==
    \/ Construct /\ TrackWrites
    \/ Return /\ TrackWrites
    \/ Turn /\ TrackWrites
    \/ TeleopCommand /\ TrackWrites
    \/ Execute(Axis) /\ TrackWrites
    \/ SetFieldRelative /\ TrackWrites
    \/ SetOpenLoop /\ TrackWrites
    \/ ToggleFieldRelative /\ TrackWrites
    \/ ToggleOpenLoop /\ TrackWrites

SpecTeleop == InitTwoOrFour /\ [][NextTeleop]_vars

----------------------------------------------------------------------------
(* Every operation of the coordinator and of the teleoperation command, on  *)
(* a four-module robot that turns, each with a few inputs.                  *)

FewTranslations == {<<0, 0>>, <<max_velocity, 0>>}
FewRotations == {0, max_angular_velocity}
FewStateLists == {sl \in StateLists(N) : \A k \in 1..N : sl[k].speed[1] \in {1, MaxSpeed}}
FewVisionResults == {None, Some(Pose2d(MaxCoord, 0, 1))}

NextAll ==
    \/ Construct /\ Untracked
    \/ Return /\ Untracked
    \/ Turn /\ Untracked
    \/ Periodic(FewVisionResults) /\ Untracked
    \/ Drive(FewTranslations, FewRotations) /\ Untracked
    \/ DriveChassisSpeeds(FewTranslations, FewRotations) /\ Untracked
    \/ DesireModuleStates(FewStateLists) /\ Untracked
    \/ ResetOdometry(Poses) /\ Untracked
    \/ ResetModules /\ Untracked
    \/ ZeroHeading /\ Untracked
    \/ ReadModulePositions /\ Untracked
    \/ ReadPose /\ Untracked
    \/ ReadHeading /\ Untracked
    \/ ReadRobotRelativeSpeeds /\ Untracked
    \/ TeleopCommand /\ Untracked
    \/ Execute({0, 1}) /\ Untracked
    \/ ToggleFieldRelative /\ Untracked
    \/ ToggleOpenLoop /\ Untracked

SpecAll == InitFour /\ [][NextAll]_vars

----------------------------------------------------------------------------
(* The scheduler: the two commands are built, scheduled, run cycle by cycle *)
(* and cancelled, on a four-module robot that stands where it was built.    *)

NextScheduler ==
    \/ Construct /\ TrackRuns
    \/ Return /\ TrackRuns
    \/ TeleopCommand /\ TrackRuns
    \/ FollowTrajectoryCommand /\ TrackRuns
    \/ Schedule /\ TrackRuns
    \/ Cancel /\ TrackRuns
    \/ SchedulerRun({0, 1}, FewTranslations, FewRotations) /\ TrackRuns

SpecScheduler == InitFour /\ [][NextScheduler]_vars

----------------------------------------------------------------------------
(* The contract of desire_module_states: direct calls with state lists one  *)
(* shorter than, as long as and one longer than the module tuple.           *)

ListsAround(n) == UNION {StateLists(k) : k \in {n - 1, n, n + 1}}

NextContract ==
    \/ Construct /\ Untracked
    \/ Return /\ Untracked
    \/ Turn /\ Untracked
    \/ DesireModuleStates(ListsAround(N)) /\ Untracked

SpecContract == Init /\ [][NextContract]_vars

----------------------------------------------------------------------------
(* Reading the log of the call in progress                                  *)

\* the desire_module_states call in progress: its log entry, if there is one
Requests == SelectSeq(log, LAMBDA e : e.call = "desire_module_states")
\* the module.desire_state calls it has made
DesireCalls == SelectSeq(log, LAMBDA e : e.call = "module.desire_state")
CallsTo(i) == SelectSeq(DesireCalls, LAMBDA e : e.module = i)

\* the largest speed magnitude of a state list, as a rational
MaxMagnitude(states) ==
    CHOOSE m \in {RatAbs(states[k].speed) : k \in 1..Len(states)} :
        \A k \in 1..Len(states) : ~RatLess(m, RatAbs(states[k].speed))

\* f = v * (limit / m), for rationals f, v, m and an integer limit
IsScaled(f, v, limit, m) == f[1] * v[2] * m[1] = v[1] * limit * m[2] * f[2]

----------------------------------------------------------------------------
(* C1: one desire_module_states call with a list of length N commands every *)
(* module index 0..N-1 exactly once, none outside that range, and module i  *)
(* receives the desaturated state at index i with the call's open_loop and  *)
(* rotate_in_place arguments.                                               *)
C1_FanOutComplete ==
    \A r \in 1..Len(Requests) :
        LET req == Requests[r]
        IN  Len(req.states) = N =>
              /\ raised = "none"
              /\ Len(DesireCalls) = N
              /\ \A i \in 0..(N - 1) :
                    /\ Len(CallsTo(i)) = 1
                    /\ CallsTo(i)[1].state =
                           desaturateWheelSpeeds(req.states, max_velocity)[i + 1]
                    /\ CallsTo(i)[1].open_loop = req.open_loop
                    /\ CallsTo(i)[1].rotate_in_place = req.rotate_in_place

----------------------------------------------------------------------------
(* C3: every state a module is commanded is the desaturation of the input   *)
(* list against max_linear: scaled by max_linear / max|v| when max|v|       *)
(* exceeds max_linear, the input itself otherwise; so no commanded speed    *)
(* exceeds max_linear in magnitude.                                         *)
C3_ForwardedIsDesaturated ==
    \A r \in 1..Len(Requests) : \A c \in 1..Len(DesireCalls) :
        LET states == Requests[r].states
            given == states[DesireCalls[c].module + 1]
            sent == DesireCalls[c].state
            m == MaxMagnitude(states)
        IN  /\ sent.angle = given.angle
            /\ IF RatLess(<<MaxLinear, 1>>, m)
               THEN IsScaled(sent.speed, given.speed, MaxLinear, m)
               ELSE sent.speed = given.speed
            /\ ~RatLess(<<MaxLinear, 1>>, RatAbs(sent.speed))

\* a direct call whose fastest wheel is over the ceiling has scaled a slower,
\* moving wheel down to a speed that is no integer
C3_Witness ==
    /\ op = "desire_module_states"
    /\ Len(Requests) = 1
    /\ RatLess(<<MaxLinear, 1>>, MaxMagnitude(Requests[1].states))
    /\ \E c \in 1..Len(DesireCalls) :
          /\ DesireCalls[c].state.speed[2] > 1
          /\ DesireCalls[c].state # Requests[1].states[DesireCalls[c].module + 1]

----------------------------------------------------------------------------
(* C5: reset_odometry(P) followed by a read of pose, with no periodic() in  *)
(* between, returns exactly P; and the reset hands the estimator the        *)
(* heading and the module positions read at that moment as its baseline.    *)
C5_ResetThenReadPose ==
    /\ (op = "pose" /\ resetTo.some) => ret = resetTo.value
    /\ op = "reset_odometry" =>
          /\ log = <<[call |-> "odometry.resetPosition", heading |-> gyro,
                      positions |-> dist, pose |-> resetTo.value]>>
          /\ odometry.previous = dist
          /\ odometry.gyroOffset = (resetTo.value.rot - gyro) % 4

\* pose is read after a reset to a pose off the origin, made with the wheels
\* rolled, and after the robot has turned since
C5_Witness ==
    /\ op = "pose"
    /\ resetTo.some
    /\ ret.x > 0
    /\ odometry.previous[1] > 0
    /\ (ret.rot - gyro) % 4 # odometry.gyroOffset

----------------------------------------------------------------------------
(* C6: a periodic() call makes, in this order, one estimator update from    *)
(* the current heading and module positions, one call of the vision-pose    *)
(* callback with the pose after that update, and one correction of the      *)
(* estimator if and only if the callback returned a pose; with no pose      *)
(* returned it ends normally with the updated estimate.                     *)
C6_PeriodicOrder ==
    [][op' = "periodic" =>
         LET updated == EstimatorUpdate(odometry, gyro, dist)
         IN  /\ raised' = "none"
             /\ Len(log') >= 2
             /\ log'[1] = [call |-> "odometry.update", heading |-> gyro,
                           positions |-> dist]
             /\ log'[2].call = "vision_pose_callback"
             /\ log'[2].pose = updated.pose
             /\ IF log'[2].result.some
                THEN /\ Len(log') = 3
                     /\ log'[3] = [call |-> "odometry.addVisionMeasurement",
                                   pose |-> log'[2].result.value]
                ELSE /\ Len(log') = 2
                     /\ odometry' = updated]_vars

\* a periodic() whose update moved the estimate and whose callback returned a
\* different pose, which the estimator took
C6_Witness ==
    /\ op = "periodic"
    /\ Len(log) = 3
    /\ log[1].positions[1] > 0
    /\ log[2].pose.x > 0
    /\ log[3].pose # log[2].pose
    /\ odometry.pose = log[3].pose

----------------------------------------------------------------------------
(* C8: construction sleeps before it resets any module, resets every module *)
(* before it zeroes the heading sensor, zeroes the heading sensor before it *)
(* builds the pose estimator, and seeds the estimator with the origin pose  *)
(* and with the heading and module positions read after those resets.       *)
Indices(call) == {k \in 1..Len(log) : log[k].call = call}
Before(a, b) == \A i \in Indices(a), j \in Indices(b) : i < j

C8_ConstructionOrder ==
    op = "__init__" =>
        /\ Cardinality(Indices("time.sleep")) = 1
        /\ \A i \in 0..(N - 1) :
              Cardinality({k \in Indices("module.reset") : log[k].module = i}) = 1
        /\ Cardinality(Indices("module.reset")) = N
        /\ Cardinality(Indices("gyro.zero_heading")) = 1
        /\ Cardinality(Indices("PoseEstimator")) = 1
        /\ Before("time.sleep", "module.reset")
        /\ Before("module.reset", "gyro.zero_heading")
        /\ Before("gyro.zero_heading", "PoseEstimator")
        /\ \A k \in Indices("PoseEstimator") :
              /\ log[k].pose = Origin
              /\ log[k].heading = gyro
              /\ log[k].positions = dist
        /\ odometry = EstimatorAt(gyro, dist, Origin)

\* a four-module coordinator has just been constructed
C8_Witness ==
    /\ op = "__init__"
    /\ N = 4
    /\ Indices("PoseEstimator") # {}
    /\ odometry.previous = <<0, 0, 0, 0>>

----------------------------------------------------------------------------
(* The drive call an execute() in progress has made                         *)
DriveCalls == SelectSeq(log, LAMBDA e : e.call = "drive")

----------------------------------------------------------------------------
(* C2: after a value is written to field_relative or open_loop through its  *)
(* dashboard setter, or the flag is toggled, the next execute() passes the  *)
(* written value (for a toggle, the negation of the previous value) as that *)
(* argument of drive.                                                       *)
C2_WrittenFlagReachesDrive ==
    op = "execute" =>
        /\ Len(DriveCalls) = 1
        /\ wrote.field_relative.by # "nobody" =>
              DriveCalls[1].field_relative = wrote.field_relative.value
        /\ wrote.open_loop.by # "nobody" =>
              DriveCalls[1].open_loop = wrote.open_loop.value

----------------------------------------------------------------------------
(* C7: once field_relative has been toggled, every later execute() passes   *)
(* the toggled value as drive's field_relative argument, until the flag is  *)
(* written again; the toggle changes nothing else of the command, which is  *)
(* the same instance with the same open_loop flag.                          *)
C7_ToggleFieldRelative ==
    [][/\ (op' = "execute" /\ wrote'.field_relative.by = "toggle") =>
              SelectSeq(log', LAMBDA e : e.call = "drive")[1].field_relative
                  = wrote'.field_relative.value
       /\ op' = "toggle_field_relative" =>
              /\ teleop'.field_relative = ~teleop.field_relative
              /\ teleop' = [teleop EXCEPT !.field_relative = ~@]]_vars

\* an execute() after a toggle that switched field-relative driving on, on a
\* robot that has turned: the drive call is field-relative
C7_Witness ==
    /\ op = "execute"
    /\ wrote.field_relative = Written("toggle", TRUE)
    /\ gyro # 0
    /\ Len(DriveCalls) = 1
    /\ DriveCalls[1].field_relative
    /\ DriveCalls[1].translation # <<0, 0>>

----------------------------------------------------------------------------
(* C4: of the operations of a built coordinator and its teleop command,     *)
(* only periodic() and reset_odometry() change the estimator's pose: drive  *)
(* (both overloads), desire_module_states, reset_modules, zero_heading, the *)
(* read accessors, execute and the toggles leave it as it was.              *)
C4_PoseFrame ==
    [][(built /\ odometry'.pose # odometry.pose)
          => op' \in {"periodic", "reset_odometry"}]_vars

\* zero_heading has run on a robot that had turned, whose estimate is off the
\* origin and turned
C4_Witness ==
    /\ op = "zero_heading"
    /\ odometry.pose.x # 0
    /\ odometry.pose.rot # 0
    /\ odometry.gyroOffset # odometry.pose.rot
    /\ teleop.exists

----------------------------------------------------------------------------
(* C9: a trajectory-follow command built with first_path set resets the     *)
(* odometry exactly once in every run, to the starting pose of its path,    *)
(* and never after a drive call of that run; one built without first_path   *)
(* never resets the odometry.                                               *)
C9_FirstPathResetsOnce ==
    (traj.exists /\ run.started) =>
        IF traj.first_path
        THEN /\ run.resets = 1
             /\ ~run.late
             /\ run.poses = {traj.path.start}
        ELSE run.resets = 0

\* a first-path command has driven in its run, its reset having moved
\* the estimate to the start of a path that is off the origin
C9_Witness ==
    /\ op = "scheduler.run"
    /\ traj.exists
    /\ traj.first_path
    /\ traj.path.start # Origin
    /\ run.drove
    /\ run.resets = 1
    /\ OwnedBy(log, "follow") # {}
    /\ odometry.pose.rot = traj.path.start.rot

----------------------------------------------------------------------------
(* C10: every teleoperation command and every trajectory-follow command     *)
(* requires the coordinator, so in one scheduler cycle the drive calls come *)
(* from at most one command, and scheduling or cancelling a command makes   *)
(* no drive call.                                                           *)
Drivers == {c \in Commands : \E k \in OwnedBy(log, c) : log[k].call = "drive"}

C10_OneDriverPerCycle ==
    /\ teleop.exists => Swerve \in teleop.requirements
    /\ traj.exists => Swerve \in traj.command.requirements
    /\ op = "scheduler.run" => Cardinality(Drivers) <= 1
    /\ op \in {"schedule", "cancel"} => Drivers = {}

\* the trajectory-follow command drives in a cycle in which the teleop
\* command, which exists, is not scheduled
C10_Witness ==
    /\ op = "scheduler.run"
    /\ teleop.exists
    /\ traj.exists
    /\ traj.first_path
    /\ Drivers = {"follow"}
    /\ scheduled = <<"follow">>

----------------------------------------------------------------------------
(* C11: a desire_module_states call whose state list is shorter or longer   *)
(* than the module tuple fails: it ends with an exception, not as a normal  *)
(* fan-out.                                                                 *)
C11_MismatchFails ==
    \A r \in 1..Len(Requests) :
        Len(Requests[r].states) # N => raised # "none"

\* a call with a list one longer than the module tuple, whose first N states
\* are within the speed ceiling, has failed
C11_Witness ==
    /\ op = "desire_module_states"
    /\ Len(Requests) = 1
    /\ Len(Requests[1].states) = N + 1
    /\ ~RatLess(<<MaxLinear, 1>>, MaxMagnitude(Requests[1].states))
    /\ raised # "none"

----------------------------------------------------------------------------
(* The module commands a call has made, read from its log                   *)
ModuleCalls(l) == SelectSeq(l, LAMBDA e : e.call = "module.desire_state")

----------------------------------------------------------------------------
(* C12: the chassis-speed overload of drive, given (vx, vy, omega) and an   *)
(* open-loop flag, commands the modules exactly as the primary drive does   *)
(* from the same state with translation (vx, vy), rotation omega and        *)
(* field_relative false, and as it would at heading zero: the same states   *)
(* in the same order, that open-loop flag, rotate_in_place false.           *)
C12_OverloadIsRobotRelativeDrive ==
    [][op' = "drive(ChassisSpeeds)" =>
         LET speeds == args'.chassis_speeds
             primary == drive(Fresh(Cur), <<speeds.vx, speeds.vy>>, speeds.omega,
                              FALSE, args'.open_loop)
             atZero == drive(Fresh([Cur EXCEPT !.gyro = 0]), <<speeds.vx, speeds.vy>>,
                             speeds.omega, FALSE, args'.open_loop)
         IN  /\ ModuleCalls(log') = ModuleCalls(primary.log)
             /\ ModuleCalls(log') = ModuleCalls(atZero.log)
             /\ raised' = primary.raised
             /\ \A k \in 1..Len(ModuleCalls(log')) :
                    /\ ModuleCalls(log')[k].open_loop = args'.open_loop
                    /\ ModuleCalls(log')[k].rotate_in_place = FALSE]_vars

\* the overload has commanded every module of a robot that has turned, for a
\* chassis speed that translates and rotates
C12_Witness ==
    /\ op = "drive(ChassisSpeeds)"
    /\ gyro # 0
    /\ args.chassis_speeds.vx # 0
    /\ args.chassis_speeds.omega # 0
    /\ args.open_loop
    /\ Len(ModuleCalls(log)) = N

----------------------------------------------------------------------------
(* C13: when the heading sensor reads zero, drive called field-relative and *)
(* drive called robot-relative with the same translation, rotation and      *)
(* open-loop flag command the same module states.                           *)
C13_ZeroHeadingFramesAgree ==
    [][(op' = "drive" /\ gyro = 0) =>
         LET other == drive(Fresh(Cur), args'.translation, args'.rotation,
                            ~args'.field_relative, args'.open_loop)
         IN  /\ ModuleCalls(log') = ModuleCalls(other.log)
             /\ raised' = other.raised]_vars

\* a field-relative drive at heading zero that translates along both axes and
\* rotates has commanded every module
C13_Witness ==
    /\ op = "drive"
    /\ gyro = 0
    /\ args.field_relative
    /\ args.translation[1] # 0
    /\ args.translation[2] # 0
    /\ args.rotation # 0
    /\ raised = "none"
    /\ Len(ModuleCalls(log)) = N

=============================================================================
